---- MODULE Spec2Model ----
(***************************************************************************)
(* The subscription / access state machine of the NutriApp backend         *)
(* (src/unnamed/part_000): the users table's entitlement columns, the      *)
(* access evaluation, the Stripe webhook handlers, payment verification    *)
(* and the daily expiry job.  Stripe itself is the environment: it owns    *)
(* customers and subscriptions and emits events that are delivered at      *)
(* least once and in any order.                                            *)
(*                                                                         *)
(* Time is a clock `now` counted in ticks; TicksPerDay ticks make one day  *)
(* (the source counts milliseconds, 1000*60*60*24 to the day).  Stripe's   *)
(* current_period_end (seconds) and the Date built from it (line 555) are  *)
(* the same instant, so both are the same tick number.                     *)
(*                                                                         *)
(* Spec serves every request in one step.  ConcurrentSpec serves           *)
(* create-subscription one await at a time, and IndexSpec is the simpler   *)
(* implementation, src/app calorias por foto/index.js.                     *)
(***************************************************************************)
EXTENDS Integers, FiniteSets, Sequences, TLC

\* ---------------------------------------------------------------- bounds
\* clock ticks in a day
TicksPerDay == 2
\* ticks of trial user 1 has left when the clock starts
InitialTrialLeft == 1
\* the clock stops here
MaxTime == 4
\* length of a billing period at Stripe, in ticks
PeriodTicks == 2
\* registrations are accepted up to this time
MaxRegTime == 0
\* number of states a Stripe subscription goes through at most
MaxHistory == 3

\* ------------------------------------------------------ program constants
\* trialEndsAt.setDate(trialEndsAt.getDate() + 7), line 167
TRIAL_DAYS == 7
\* a column that holds no value (SQL NULL, falsy in JS)
NULL == -1

UserIds == {1, 2}
CustomerIds == {1, 2}
SubscriptionIds == {1}
StripeStatuses == {"active", "past_due", "canceled"}

VARIABLES
    users,             \* the users table: id -> row (entitlement columns)
    now,               \* the clock (new Date(), NOW())
    stripe_customers,  \* Stripe: customer id -> metadata.user_id
    stripe_subs,       \* Stripe: subscription id -> the states it has had, oldest first
    resp,              \* the last request served and its response
    inflight           \* requests being served step by step: id -> locals

vars == <<users, now, stripe_customers, stripe_subs, resp, inflight>>

\* ------------------------------------------------------------- helpers
NoResp == [op |-> "none"]

\* the day count taken with Math.floor instead of Math.ceil
FloorDays(ticks) ==
    IF ticks >= 0
    THEN ticks \div TicksPerDay
    ELSE -((-ticks + TicksPerDay - 1) \div TicksPerDay)

\* Math.ceil(ms / (1000*60*60*24)) for ms > 0 or ms <= 0 (lines 263, 464, 663)
CeilDays(ticks) ==
    IF ticks >= 0
    THEN (ticks + TicksPerDay - 1) \div TicksPerDay
    ELSE -((-ticks) \div TicksPerDay)

\* ------------------------------------------------- the access evaluation
\* requireActiveSubscription with the end date compared the wrong way round
RequireActiveSubscriptionFlipped(user, t) ==
    IF user.trial_ends_at # NULL /\ user.trial_ends_at > t
    THEN [pass |-> TRUE, code |-> 200, flag |-> "trialActive"]
    ELSE IF /\ user.subscription_status = "active"
            /\ user.subscription_ends_at # NULL
            /\ user.subscription_ends_at < t
    THEN [pass |-> TRUE, code |-> 200, flag |-> "subscriptionActive"]
    ELSE [pass |-> FALSE, code |-> 402, flag |-> "SUBSCRIPTION_REQUIRED"]

\* requireActiveSubscription, lines 77-96
RequireActiveSubscription(user, t) ==
    IF user.trial_ends_at # NULL /\ user.trial_ends_at > t
    THEN [pass |-> TRUE, code |-> 200, flag |-> "trialActive"]
    ELSE IF /\ user.subscription_status = "active"
            /\ user.subscription_ends_at # NULL
            /\ user.subscription_ends_at > t
    THEN [pass |-> TRUE, code |-> 200, flag |-> "subscriptionActive"]
    ELSE [pass |-> FALSE, code |-> 402, flag |-> "SUBSCRIPTION_REQUIRED"]

\* GET /api/user/access with the subscription tested before the trial
\* (the order POST /api/auth/login uses, lines 245-247)
UserAccessSubscriptionFirst(user, t) ==
    IF /\ user.subscription_status = "active"
       /\ user.subscription_ends_at # NULL
       /\ user.subscription_ends_at > t
    THEN [has_access |-> TRUE, status |-> "active",
          daysLeft |-> CeilDays(user.subscription_ends_at - t)]
    ELSE IF user.trial_ends_at # NULL /\ user.trial_ends_at > t
    THEN [has_access |-> TRUE, status |-> "trial",
          daysLeft |-> CeilDays(user.trial_ends_at - t)]
    ELSE [has_access |-> FALSE, status |-> "expired", daysLeft |-> 0]

\* GET /api/user/access granting access through the stored end date
\* whatever the subscription status is
UserAccessIgnoringStatus(user, t) ==
    IF user.trial_ends_at # NULL /\ user.trial_ends_at > t
    THEN [has_access |-> TRUE, status |-> "trial",
          daysLeft |-> CeilDays(user.trial_ends_at - t)]
    ELSE IF user.subscription_ends_at # NULL /\ user.subscription_ends_at > t
    THEN [has_access |-> TRUE, status |-> "active",
          daysLeft |-> CeilDays(user.subscription_ends_at - t)]
    ELSE [has_access |-> FALSE, status |-> "expired", daysLeft |-> 0]

\* GET /api/user/access with the initial status 'inactive' left in place
UserAccessStatusInactive(user, t) ==
    IF user.trial_ends_at # NULL /\ user.trial_ends_at > t
    THEN [has_access |-> TRUE, status |-> "trial",
          daysLeft |-> CeilDays(user.trial_ends_at - t)]
    ELSE IF /\ user.subscription_status = "active"
            /\ user.subscription_ends_at # NULL
            /\ user.subscription_ends_at > t
    THEN [has_access |-> TRUE, status |-> "active",
          daysLeft |-> CeilDays(user.subscription_ends_at - t)]
    ELSE [has_access |-> FALSE, status |-> "inactive", daysLeft |-> 0]

\* GET /api/user/access, lines 655-677: hasAccess, status and the daysLeft
\* of the message (0 where the message names no days)
UserAccess(user, t) ==
    IF user.trial_ends_at # NULL /\ user.trial_ends_at > t
    THEN [has_access |-> TRUE, status |-> "trial",
          daysLeft |-> CeilDays(user.trial_ends_at - t)]
    ELSE IF /\ user.subscription_status = "active"
            /\ user.subscription_ends_at # NULL
            /\ user.subscription_ends_at > t
    THEN [has_access |-> TRUE, status |-> "active",
          daysLeft |-> CeilDays(user.subscription_ends_at - t)]
    ELSE [has_access |-> FALSE, status |-> "expired", daysLeft |-> 0]

\* GET /api/user/subscription, lines 458-469: the stored status and the two
\* day counts, each computed from its end date alone
UserSubscription(user, t) ==
    [status |-> user.subscription_status,
     trial_days_remaining |->
        IF user.trial_ends_at # NULL /\ user.trial_ends_at > t
        THEN CeilDays(user.trial_ends_at - t) ELSE 0,
     subscription_days_remaining |->
        IF user.subscription_ends_at # NULL /\ user.subscription_ends_at > t
        THEN CeilDays(user.subscription_ends_at - t) ELSE 0]

\* POST /api/auth/login taking a subscription as active by its end date
\* alone, whatever its status
LoginSubscriptionIgnoringStatus(user, t) ==
    LET trialActive == user.trial_ends_at # NULL /\ user.trial_ends_at > t
        subscriptionActive ==
            /\ user.subscription_ends_at # NULL
            /\ user.subscription_ends_at > t
    IN [status |-> IF subscriptionActive THEN "active"
                   ELSE IF trialActive THEN "trial"
                   ELSE "inactive",
        requires_subscription |-> ~trialActive /\ ~subscriptionActive]

\* POST /api/auth/login, lines 239-247 and 281: trialActive,
\* subscriptionActive, subscriptionStatus and requires_subscription
LoginSubscription(user, t) ==
    LET trialActive == user.trial_ends_at # NULL /\ user.trial_ends_at > t
        subscriptionActive ==
            /\ user.subscription_status = "active"
            /\ user.subscription_ends_at # NULL
            /\ user.subscription_ends_at > t
    IN [status |-> IF subscriptionActive THEN "active"
                   ELSE IF trialActive THEN "trial"
                   ELSE "inactive",
        requires_subscription |-> ~trialActive /\ ~subscriptionActive]

\* POST /api/auth/login, lines 260-264: trialDaysRemaining
LoginTrialDaysRemaining(user, t) ==
    IF user.trial_ends_at # NULL
    THEN LET days == CeilDays(user.trial_ends_at - t) IN
         IF days > 0 THEN days ELSE 0
    ELSE 0

\* ------------------------------------------------------------------ Init
\* the row POST /api/auth/register inserts at time t, lines 165-178
NewUser(t) ==
    [subscription_status |-> "trial",
     trial_ends_at |-> t + TRIAL_DAYS * TicksPerDay,
     subscription_ends_at |-> NULL,
     stripe_customer_id |-> NULL,
     stripe_subscription_id |-> NULL]

\* The clock starts when user 1, registered earlier and idle since, has
\* InitialTrialLeft ticks of trial left; nothing else has happened yet.
Init ==
    /\ users = (1 :> NewUser(InitialTrialLeft - TRIAL_DAYS * TicksPerDay))
    /\ now = 0
    /\ stripe_customers = << >>
    /\ stripe_subs = << >>
    /\ resp = NoResp
    /\ inflight = << >>

\* ---------------------------------------------------------------- clock
Tick ==
    /\ now < MaxTime
    /\ now' = now + 1
    /\ UNCHANGED <<users, stripe_customers, stripe_subs, resp, inflight>>

\* ------------------------------------------------------------- requests
\* POST /api/auth/register, lines 144-212
Register(u) ==
    /\ now <= MaxRegTime
    /\ IF u \in DOMAIN users
       THEN /\ resp' = [op |-> "register", u |-> u, code |-> 409]
            /\ UNCHANGED users
       ELSE /\ users' = users @@ (u :> NewUser(now))
            /\ resp' = [op |-> "register", u |-> u, code |-> 201]
    /\ UNCHANGED <<now, stripe_customers, stripe_subs, inflight>>

\* GET /api/user/access, lines 638-692
GetUserAccess(u) ==
    /\ IF u \in DOMAIN users
       THEN resp' = [op |-> "access", u |-> u, code |-> 200,
                     body |-> UserAccess(users[u], now)]
       ELSE resp' = [op |-> "access", u |-> u, code |-> 404]
    /\ UNCHANGED <<users, now, stripe_customers, stripe_subs, inflight>>

\* a protected endpoint (POST /api/food/analyze, /api/diary) behind
\* requireActiveSubscription, lines 60-102
ProtectedRequest(u) ==
    /\ IF u \in DOMAIN users
       THEN resp' = [op |-> "protected", u |-> u,
                     code |-> RequireActiveSubscription(users[u], now).code,
                     body |-> RequireActiveSubscription(users[u], now)]
       ELSE resp' = [op |-> "protected", u |-> u, code |-> 404]
    /\ UNCHANGED <<users, now, stripe_customers, stripe_subs, inflight>>

\* POST /api/auth/login, lines 238-282 (after the password check, lines 227-236)
Login(u, validPassword) ==
    /\ IF u \notin DOMAIN users \/ ~validPassword
       THEN resp' = [op |-> "login", u |-> u, code |-> 401]
       ELSE LET user == users[u]
            IN resp' = [op |-> "login", u |-> u, code |-> 200,
                        status |-> LoginSubscription(user, now).status,
                        trial_days_remaining |->
                            LoginTrialDaysRemaining(user, now),
                        requires_subscription |->
                            LoginSubscription(user, now).requires_subscription]
    /\ UNCHANGED <<users, now, stripe_customers, stripe_subs, inflight>>

\* the customer id stripe.customers.create returns: one Stripe has not used
FreshCustomers == CustomerIds \ DOMAIN stripe_customers

\* POST /api/payment/create-subscription, lines 292-358
CreateSubscription(u) ==
    /\ IF u \notin DOMAIN users
       THEN /\ resp' = [op |-> "create-subscription", u |-> u, code |-> 404]
            /\ UNCHANGED <<users, stripe_customers>>
       ELSE IF users[u].stripe_customer_id # NULL
       THEN /\ resp' = [op |-> "create-subscription", u |-> u, code |-> 200]
            /\ UNCHANGED <<users, stripe_customers>>
       ELSE /\ FreshCustomers # {}
            /\ \E c \in FreshCustomers :
                /\ stripe_customers' = stripe_customers @@ (c :> u)
                /\ users' = [users EXCEPT ![u].stripe_customer_id = c]
            /\ resp' = [op |-> "create-subscription", u |-> u, code |-> 200]
    /\ UNCHANGED <<now, stripe_subs, inflight>>

\* ---------------------------------------------------- Stripe, the environment
\* a customer of the Stripe account that this backend did not create
StripeForeignCustomer ==
    /\ FreshCustomers # {}
    /\ \E c \in FreshCustomers : stripe_customers' = stripe_customers @@ (c :> NULL)
    /\ UNCHANGED <<users, now, stripe_subs, resp, inflight>>

\* the subscription s as Stripe holds it now: the last entry of its history
Current(s) == stripe_subs[s][Len(stripe_subs[s])]

\* a checkout session of customer c is paid: Stripe opens the subscription
StripeCheckoutPaid(c) ==
    /\ c \in DOMAIN stripe_customers
    /\ \E s \in SubscriptionIds \ DOMAIN stripe_subs :
        stripe_subs' = stripe_subs @@ (s :>
            << [customer |-> c, id |-> s, status |-> "active",
                current_period_end |-> now + PeriodTicks] >>)
    /\ UNCHANGED <<users, now, stripe_customers, resp, inflight>>

\* Stripe changes subscription s: its history grows by the new state
StripeChange(s, status, periodEnd) ==
    /\ s \in DOMAIN stripe_subs
    /\ Len(stripe_subs[s]) < MaxHistory
    /\ stripe_subs' = [stripe_subs EXCEPT ![s] =
           Append(@, [Current(s) EXCEPT !.status = status,
                                        !.current_period_end = periodEnd])]
    /\ UNCHANGED <<users, now, stripe_customers, resp, inflight>>

\* the period ends and the invoice is paid: Stripe renews the subscription
StripeRenew(s) ==
    /\ s \in DOMAIN stripe_subs
    /\ Current(s).status \in {"active", "past_due"}
    /\ Current(s).current_period_end <= now
    /\ StripeChange(s, "active", now + PeriodTicks)

\* the invoice is not paid
StripePastDue(s) ==
    /\ s \in DOMAIN stripe_subs
    /\ Current(s).status = "active"
    /\ StripeChange(s, "past_due", Current(s).current_period_end)

\* the subscription ends
StripeCancel(s) ==
    /\ s \in DOMAIN stripe_subs
    /\ Current(s).status # "canceled"
    /\ StripeChange(s, "canceled", Current(s).current_period_end)

\* event.data.object of the event Stripe sends for entry i of the history of
\* s: customer.subscription.created for the first, .deleted for the end of
\* the subscription, .updated otherwise, each carrying the subscription as
\* it was then; and the invoice event of that change, naming the subscription
SubscriptionEvent(s, i) ==
    LET sub == stripe_subs[s][i] IN
    [type |-> IF i = 1 THEN "customer.subscription.created"
              ELSE IF sub.status = "canceled" THEN "customer.subscription.deleted"
              ELSE "customer.subscription.updated",
     customer |-> sub.customer, id |-> s, status |-> sub.status,
     current_period_end |-> sub.current_period_end]

InvoiceEvent(s, i) ==
    LET sub == stripe_subs[s][i] IN
    [type |-> IF sub.status = "past_due" THEN "invoice.payment_failed"
              ELSE "invoice.payment_succeeded",
     customer |-> sub.customer, id |-> s, status |-> "invoice",
     current_period_end |-> NULL]

\* the signed events Stripe has sent so far; each stays deliverable, any
\* number of times and in any order
StripeEvents ==
    UNION {{SubscriptionEvent(s, i) : i \in 1..Len(stripe_subs[s])}
           \cup {InvoiceEvent(s, i) :
                   i \in {j \in 1..Len(stripe_subs[s]) :
                            stripe_subs[s][j].status # "canceled"}}
           : s \in DOMAIN stripe_subs}

\* ------------------------------------------------------ webhook handlers
\* the lookup also matching the rows that have no customer yet
SelectByCustomerOrUnlinked(us, customerId) ==
    {u \in DOMAIN us : us[u].stripe_customer_id = customerId
                        \/ us[u].stripe_customer_id = NULL}

\* SELECT id FROM users WHERE stripe_customer_id = $1  (lines 558-561, 587-590)
SelectByCustomer(us, customerId) ==
    {u \in DOMAIN us : us[u].stripe_customer_id = customerId}

\* handleSubscriptionUpdate extending the stored end date by the length of the
\* period instead of assigning the period end
HandleSubscriptionUpdateExtending(us, subscription) ==
    LET rows == {u \in DOMAIN us : us[u].stripe_customer_id = subscription.customer} IN
    IF rows # {}
    THEN LET userId == CHOOSE u \in rows : TRUE IN
         [us EXCEPT ![userId].subscription_status = subscription.status,
                    ![userId].subscription_ends_at =
                        IF @ = NULL THEN subscription.current_period_end
                        ELSE @ + PeriodTicks,
                    ![userId].stripe_subscription_id = subscription.id]
    ELSE us

\* handleSubscriptionUpdate leaving stripe_subscription_id out of the UPDATE
HandleSubscriptionUpdateNoSubscriptionId(us, subscription) ==
    LET rows == {u \in DOMAIN us : us[u].stripe_customer_id = subscription.customer} IN
    IF rows # {}
    THEN LET userId == CHOOSE u \in rows : TRUE IN
         [us EXCEPT ![userId].subscription_status = subscription.status,
                    ![userId].subscription_ends_at = subscription.current_period_end]
    ELSE us

\* handleSubscriptionUpdate discarding an update whose period end is older
\* than the stored one
HandleSubscriptionUpdateKeepLater(us, subscription) ==
    LET rows == {u \in DOMAIN us : us[u].stripe_customer_id = subscription.customer} IN
    IF rows # {}
    THEN LET userId == CHOOSE u \in rows : TRUE IN
         IF us[userId].subscription_ends_at # NULL
            /\ subscription.current_period_end < us[userId].subscription_ends_at
         THEN us
         ELSE [us EXCEPT ![userId].subscription_status = subscription.status,
                         ![userId].subscription_ends_at = subscription.current_period_end,
                         ![userId].stripe_subscription_id = subscription.id]
    ELSE us

\* handleSubscriptionUpdate ending the trial when the subscription starts
HandleSubscriptionUpdateEndingTrial(us, subscription) ==
    LET rows == {u \in DOMAIN us : us[u].stripe_customer_id = subscription.customer} IN
    IF rows # {}
    THEN LET userId == CHOOSE u \in rows : TRUE IN
         [us EXCEPT ![userId].subscription_status = subscription.status,
                    ![userId].subscription_ends_at = subscription.current_period_end,
                    ![userId].stripe_subscription_id = subscription.id,
                    ![userId].trial_ends_at = NULL]
    ELSE us

\* handleSubscriptionUpdate, lines 552-581
HandleSubscriptionUpdate(us, subscription) ==
    LET rows == SelectByCustomer(us, subscription.customer) IN
    IF rows # {}
    THEN LET userId == CHOOSE u \in rows : TRUE IN
         [us EXCEPT ![userId].subscription_status = subscription.status,
                    ![userId].subscription_ends_at = subscription.current_period_end,
                    ![userId].stripe_subscription_id = subscription.id]
    ELSE us

\* handleSubscriptionCancel clearing the end date with the status
HandleSubscriptionCancelClearingEnd(us, subscription) ==
    LET rows == {u \in DOMAIN us : us[u].stripe_customer_id = subscription.customer} IN
    IF rows # {}
    THEN LET userId == CHOOSE u \in rows : TRUE IN
         [us EXCEPT ![userId].subscription_status = "canceled",
                    ![userId].subscription_ends_at = NULL]
    ELSE us

\* handleSubscriptionCancel, lines 583-608
HandleSubscriptionCancel(us, subscription) ==
    LET rows == SelectByCustomer(us, subscription.customer) IN
    IF rows # {}
    THEN LET userId == CHOOSE u \in rows : TRUE IN
         [us EXCEPT ![userId].subscription_status = "canceled"]
    ELSE us

\* stripe.subscriptions.retrieve(id): the subscription as Stripe holds it now,
\* or a failure (network error, timeout)
Retrieved(s, ok) ==
    IF ok /\ s \in DOMAIN stripe_subs
    THEN [ok |-> TRUE, subscription |-> Current(s)]
    ELSE [ok |-> FALSE]

\* handlePaymentSucceeded marking the customer's record active from the
\* invoice alone when the subscription cannot be fetched
HandlePaymentSucceededMarkingActive(us, invoice, retrieved) ==
    IF invoice.id # NULL
    THEN IF retrieved.ok
         THEN HandleSubscriptionUpdate(us, retrieved.subscription)
         ELSE [u \in DOMAIN us |->
                 IF us[u].stripe_customer_id = invoice.customer
                 THEN [us[u] EXCEPT !.subscription_status = "active"]
                 ELSE us[u]]
    ELSE us

\* handlePaymentSucceeded, lines 610-622
HandlePaymentSucceeded(us, invoice, retrieved) ==
    IF invoice.id # NULL
    THEN IF retrieved.ok
         THEN HandleSubscriptionUpdate(us, retrieved.subscription)
         ELSE us
    ELSE us

\* handlePaymentFailed recording the failed payment on the customer's record
HandlePaymentFailedMarkingPastDue(us, invoice) ==
    [u \in DOMAIN us |->
        IF us[u].stripe_customer_id = invoice.customer
        THEN [us[u] EXCEPT !.subscription_status = "past_due"]
        ELSE us[u]]

\* handlePaymentFailed, lines 624-634
HandlePaymentFailed(us, invoice) == us

\* the switch of POST /api/webhooks/stripe, lines 528-546
Dispatch(us, event, retrieved) ==
    CASE event.type \in {"customer.subscription.created",
                         "customer.subscription.updated"} ->
            HandleSubscriptionUpdate(us, event)
      [] event.type = "customer.subscription.deleted" ->
            HandleSubscriptionCancel(us, event)
      [] event.type = "invoice.payment_succeeded" ->
            HandlePaymentSucceeded(us, event, retrieved)
      [] event.type = "invoice.payment_failed" ->
            HandlePaymentFailed(us, event)
      [] OTHER -> us

\* POST /api/webhooks/stripe, lines 513-549: a delivery of a signed event.
\* resp records the event, what the re-fetch returned, and whether the
\* previous request served was a delivery of the same event.
Webhook(event, fetchOk) ==
    /\ event \in StripeEvents
    /\ LET retrieved == IF event.type = "invoice.payment_succeeded"
                        THEN Retrieved(event.id, fetchOk)
                        ELSE [ok |-> FALSE]
       IN /\ users' = Dispatch(users, event, retrieved)
          /\ resp' = [op |-> "webhook", code |-> 200, received |-> TRUE,
                      event |-> event, retrieved |-> retrieved,
                      again |-> (resp.op = "webhook" /\ resp.code = 200
                                 /\ resp.event = event)]
    /\ UNCHANGED <<now, stripe_customers, stripe_subs, inflight>>

\* request bodies posted with a stripe-signature header that does not verify:
\* anyone can post them, so they name any customer and carry a paid-up
\* subscription
UnsignedPayloads ==
    {[type |-> "customer.subscription.updated", customer |-> c, id |-> s,
      status |-> "active", current_period_end |-> MaxTime + PeriodTicks]
        : c \in CustomerIds, s \in SubscriptionIds}

\* constructEvent taking the body for an event without verifying the signature
ConstructEventUnverified(payload, signatureValid) ==
    [ok |-> TRUE, event |-> payload]

\* stripe.webhooks.constructEvent, lines 517-522: the event of the body, or
\* an exception when the signature does not verify
ConstructEvent(payload, signatureValid) ==
    IF signatureValid THEN [ok |-> TRUE, event |-> payload] ELSE [ok |-> FALSE]

\* POST /api/webhooks/stripe, lines 513-526, for a body whose signature does
\* not verify: constructEvent throws and the catch block answers 400
WebhookInvalidSignature(payload) ==
    /\ LET constructed == ConstructEvent(payload, FALSE) IN
       IF constructed.ok
       THEN /\ users' = Dispatch(users, constructed.event, [ok |-> FALSE])
            /\ resp' = [op |-> "webhook", code |-> 200, received |-> TRUE,
                        event |-> constructed.event,
                        retrieved |-> [ok |-> FALSE], again |-> FALSE]
       ELSE /\ UNCHANGED users
            /\ resp' = [op |-> "webhook", code |-> 400, received |-> FALSE,
                        payload |-> payload]
    /\ UNCHANGED <<now, stripe_customers, stripe_subs, inflight>>

\* GET /api/payment/verify/:session_id setting the end date to one period
\* from now instead of reading it from the subscription
VerifyPaymentGuessingEnd(c, s) ==
    /\ DOMAIN users # {}
    /\ c \in DOMAIN stripe_customers
    /\ stripe_customers[c] # NULL
    /\ IF s # NULL
       THEN /\ s \in DOMAIN stripe_subs
            /\ Current(s).customer = c
            /\ users' = [users EXCEPT
                   ![stripe_customers[c]].subscription_status = "active",
                   ![stripe_customers[c]].subscription_ends_at = now + PeriodTicks,
                   ![stripe_customers[c]].stripe_subscription_id = s]
            /\ resp' = [op |-> "verify", code |-> 200, success |-> TRUE]
       ELSE /\ UNCHANGED users
            /\ resp' = [op |-> "verify", code |-> 200, success |-> FALSE]
    /\ UNCHANGED <<now, stripe_customers, stripe_subs, inflight>>

\* GET /api/payment/verify/:session_id, lines 392-436.  A session belongs to
\* a customer this backend created (metadata.user_id); it is paid once Stripe
\* has opened its subscription s, and unpaid (s = NULL) before.  Any holder
\* of a token may call it: the caller's id is not used.
VerifyPayment(c, s) ==
    /\ DOMAIN users # {}
    /\ c \in DOMAIN stripe_customers
    /\ stripe_customers[c] # NULL
    /\ IF s # NULL
       THEN /\ s \in DOMAIN stripe_subs
            /\ Current(s).customer = c
            /\ users' = [users EXCEPT
                   ![stripe_customers[c]].subscription_status = "active",
                   ![stripe_customers[c]].subscription_ends_at =
                        Current(s).current_period_end,
                   ![stripe_customers[c]].stripe_subscription_id = s]
            /\ resp' = [op |-> "verify", code |-> 200, success |-> TRUE]
       ELSE /\ UNCHANGED users
            /\ resp' = [op |-> "verify", code |-> 200, success |-> FALSE]
    /\ UNCHANGED <<now, stripe_customers, stripe_subs, inflight>>

\* GET /api/user/subscription, lines 439-509; the subscription is fetched
\* from Stripe when the record names one, and left out when the fetch fails
GetUserSubscription(u, fetchOk) ==
    /\ IF u \in DOMAIN users
       THEN resp' = [op |-> "subscription", u |-> u, code |-> 200,
                     body |-> UserSubscription(users[u], now),
                     stripe_subscription |->
                        IF users[u].stripe_subscription_id # NULL
                        THEN Retrieved(users[u].stripe_subscription_id, fetchOk)
                        ELSE [ok |-> FALSE]]
       ELSE resp' = [op |-> "subscription", u |-> u, code |-> 404]
    /\ UNCHANGED <<users, now, stripe_customers, stripe_subs, inflight>>

\* ------------------------------------------------------- the expiry job
\* the WHERE clause without its test of subscription_status
ExpiredAnyStatus(user, t) ==
    /\ user.subscription_ends_at # NULL
    /\ user.subscription_ends_at < t

\* the WHERE clause taking the subscriptions that end within the coming day
ExpiredBeforeTomorrow(user, t) ==
    /\ user.subscription_status = "active"
    /\ user.subscription_ends_at # NULL
    /\ user.subscription_ends_at < t + TicksPerDay

\* WHERE subscription_status = 'active' AND subscription_ends_at < NOW()
\* (lines 934-939); a NULL end date is not less than anything
Expired(user, t) ==
    /\ user.subscription_status = "active"
    /\ user.subscription_ends_at # NULL
    /\ user.subscription_ends_at < t

\* the rows of users after the job has run at time t, lines 933-954
Sweep(us, t) ==
    [u \in DOMAIN us |->
        IF Expired(us[u], t)
        THEN [us[u] EXCEPT !.subscription_status = "expired"]
        ELSE us[u]]

\* cron.schedule('0 0 * * *'), lines 930-958: every day at midnight
ExpiryJob ==
    /\ now % TicksPerDay = 0
    /\ users' = Sweep(users, now)
    /\ resp' = [op |-> "sweep", code |-> 0]
    /\ UNCHANGED <<now, stripe_customers, stripe_subs, inflight>>

Next ==
    \/ Tick
    \/ \E u \in UserIds : Register(u)
    \/ \E u \in UserIds, pw \in BOOLEAN : Login(u, pw)
    \/ \E u \in UserIds : GetUserAccess(u)
    \/ \E u \in UserIds : ProtectedRequest(u)
    \/ \E u \in UserIds, ok \in BOOLEAN : GetUserSubscription(u, ok)
    \/ \E u \in UserIds : CreateSubscription(u)
    \/ \E c \in CustomerIds, s \in SubscriptionIds \cup {NULL} : VerifyPayment(c, s)
    \/ StripeForeignCustomer
    \/ \E c \in CustomerIds : StripeCheckoutPaid(c)
    \/ \E s \in SubscriptionIds : StripeRenew(s)
    \/ \E s \in SubscriptionIds : StripePastDue(s)
    \/ \E s \in SubscriptionIds : StripeCancel(s)
    \/ \E e \in StripeEvents, ok \in BOOLEAN : Webhook(e, ok)
    \/ \E p \in UnsignedPayloads : WebhookInvalidSignature(p)
    \/ ExpiryJob

Spec == Init /\ [][Next]_vars

\* ======================================================================
\* The simpler implementation, src/app calorias por foto/index.js
\* ======================================================================
\* index.js serves the same users table with other entitlement columns
\* (trial_end, is_admin, free_access, subscription_active) and keeps no
\* Stripe references: under IndexSpec the variable users holds those rows,
\* stripe_customers and stripe_subs stay empty, and emails are the keys.

\* process.env.ADMIN_EMAIL (line 59)
ADMIN_EMAIL == 2

\* hasAccess, lines 40-46
HasAccess(user, t) ==
    IF user.is_admin THEN TRUE
    ELSE IF user.free_access THEN TRUE
    ELSE IF user.subscription_active THEN TRUE
    ELSE IF user.trial_end # NULL /\ user.trial_end > t THEN TRUE
    ELSE FALSE

\* the row POST /register inserts at time t for an email, lines 56-68;
\* subscription_active is not among the inserted columns
IndexNewUser(email, t) ==
    [trial_end |-> t + TRIAL_DAYS * TicksPerDay,
     is_admin |-> (email = ADMIN_EMAIL),
     free_access |-> (email = ADMIN_EMAIL),
     subscription_active |-> FALSE]

\* The clock starts when user 1, registered earlier and idle since, has
\* InitialTrialLeft ticks of trial left.
IndexInit ==
    /\ users = (1 :> IndexNewUser(1, InitialTrialLeft - TRIAL_DAYS * TicksPerDay))
    /\ now = 0
    /\ stripe_customers = << >>
    /\ stripe_subs = << >>
    /\ resp = NoResp
    /\ inflight = << >>

\* POST /register, lines 52-77
IndexRegister(email) ==
    /\ IF email \in DOMAIN users
       THEN /\ resp' = [op |-> "register", u |-> email, code |-> 400]
            /\ UNCHANGED users
       ELSE /\ users' = users @@ (email :> IndexNewUser(email, now))
            /\ resp' = [op |-> "register", u |-> email, code |-> 200]
    /\ UNCHANGED <<now, stripe_customers, stripe_subs, inflight>>

\* POST /login, lines 79-97
IndexLogin(email, validPassword) ==
    /\ IF email \notin DOMAIN users \/ ~validPassword
       THEN resp' = [op |-> "login", u |-> email, code |-> 400]
       ELSE resp' = [op |-> "login", u |-> email, code |-> 200]
    /\ UNCHANGED <<users, now, stripe_customers, stripe_subs, inflight>>

\* GET /me, lines 103-118, called with the token of a registered user
Me(email) ==
    /\ email \in DOMAIN users
    /\ resp' = [op |-> "me", u |-> email, code |-> 200,
                access |-> HasAccess(users[email], now),
                trial_active |-> (users[email].trial_end # NULL
                                  /\ users[email].trial_end > now)]
    /\ UNCHANGED <<users, now, stripe_customers, stripe_subs, inflight>>

\* POST /create-checkout, lines 124-146: a Stripe checkout session for the
\* user's email; nothing is stored
CreateCheckout(email) ==
    /\ email \in DOMAIN users
    /\ resp' = [op |-> "create-checkout", u |-> email, code |-> 200]
    /\ UNCHANGED <<users, now, stripe_customers, stripe_subs, inflight>>

\* the bodies that can be posted to /webhook: the event type, the
\* customer_email of its object, and whether the request carries a
\* signature Stripe made (anyone can post one that does not)
IndexPayloads ==
    [type : {"checkout.session.completed", "invoice.payment_failed"},
     customer_email : UserIds,
     signatureValid : BOOLEAN]

\* /webhook also clearing subscription_active on invoice.payment_failed
SetSubscriptionActiveClearingOnFailure(us, event) ==
    [e \in DOMAIN us |->
        IF e = event.customer_email
        THEN [us[e] EXCEPT !.subscription_active =
                               (event.type = "checkout.session.completed")]
        ELSE us[e]]

\* lines 156-167 of /webhook: event = req.body, and for
\* checkout.session.completed the UPDATE ... WHERE email = customer_email
SetSubscriptionActive(us, event) ==
    IF event.type = "checkout.session.completed"
    THEN [e \in DOMAIN us |->
            IF e = event.customer_email
            THEN [us[e] EXCEPT !.subscription_active = TRUE]
            ELSE us[e]]
    ELSE us

\* POST /webhook, lines 152-171
IndexWebhook(event) ==
    /\ users' = SetSubscriptionActive(users, event)
    /\ resp' = [op |-> "webhook", code |-> 200, received |-> TRUE,
                event |-> event]
    /\ UNCHANGED <<now, stripe_customers, stripe_subs, inflight>>

\* POST /admin/free-access, lines 177-194, called with the token of a
\* registered user
AdminFreeAccess(caller, email) ==
    /\ caller \in DOMAIN users
    /\ IF ~users[caller].is_admin
       THEN /\ resp' = [op |-> "free-access", u |-> caller, code |-> 403]
            /\ UNCHANGED users
       ELSE /\ users' = [e \in DOMAIN users |->
                            IF e = email
                            THEN [users[e] EXCEPT !.free_access = TRUE]
                            ELSE users[e]]
            /\ resp' = [op |-> "free-access", u |-> caller, code |-> 200]
    /\ UNCHANGED <<now, stripe_customers, stripe_subs, inflight>>

\* GET /analyze-food, lines 200-219, called with the token of a registered user
AnalyzeFood(email) ==
    /\ email \in DOMAIN users
    /\ resp' = [op |-> "analyze-food", u |-> email,
                code |-> IF HasAccess(users[email], now) THEN 200 ELSE 403]
    /\ UNCHANGED <<users, now, stripe_customers, stripe_subs, inflight>>

IndexNext ==
    \/ Tick
    \/ \E e \in UserIds : IndexRegister(e)
    \/ \E e \in UserIds, pw \in BOOLEAN : IndexLogin(e, pw)
    \/ \E e \in UserIds : Me(e)
    \/ \E e \in UserIds : CreateCheckout(e)
    \/ \E event \in IndexPayloads : IndexWebhook(event)
    \/ \E caller \in UserIds, e \in UserIds : AdminFreeAccess(caller, e)
    \/ \E e \in UserIds : AnalyzeFood(e)

IndexSpec == IndexInit /\ [][IndexNext]_vars

\* ======================================================================
\* Requests served concurrently
\* ======================================================================
\* Node runs one handler until its next await and then may run another, so
\* two requests interleave at the awaits.  Under ConcurrentSpec
\* POST /api/payment/create-subscription is served one await at a time;
\* inflight[r] holds the locals of request r (userId, customerId).
RequestIds == {1, 2}

\* lines 294-308: SELECT email, stripe_customer_id FROM users WHERE id = $1
CreateSubscriptionSelect(r, u) ==
    /\ r \notin DOMAIN inflight
    /\ IF u \notin DOMAIN users
       THEN /\ resp' = [op |-> "create-subscription", u |-> u, code |-> 404]
            /\ UNCHANGED inflight
       ELSE /\ inflight' = inflight @@
                   (r :> [pc |-> "selected", userId |-> u,
                          customerId |-> users[u].stripe_customer_id])
            /\ UNCHANGED resp
    /\ UNCHANGED <<users, now, stripe_customers, stripe_subs>>

\* lines 311-316: if (!customerId) stripe.customers.create(...)
CreateSubscriptionCreateCustomer(r) ==
    /\ r \in DOMAIN inflight
    /\ inflight[r].pc = "selected"
    /\ inflight[r].customerId = NULL
    /\ \E c \in FreshCustomers :
        /\ stripe_customers' = stripe_customers @@ (c :> inflight[r].userId)
        /\ inflight' = [inflight EXCEPT ![r].pc = "created", ![r].customerId = c]
    /\ UNCHANGED <<users, now, stripe_subs, resp>>

\* lines 318-323: UPDATE users SET stripe_customer_id = $1 WHERE id = $2
CreateSubscriptionUpdate(r) ==
    /\ r \in DOMAIN inflight
    /\ inflight[r].pc = "created"
    /\ users' = [users EXCEPT ![inflight[r].userId].stripe_customer_id =
                                 inflight[r].customerId]
    /\ inflight' = [inflight EXCEPT ![r].pc = "stored"]
    /\ UNCHANGED <<now, stripe_customers, stripe_subs, resp>>

\* lines 326-349: the checkout session for customerId and the response
CreateSubscriptionRespond(r) ==
    /\ r \in DOMAIN inflight
    /\ \/ inflight[r].pc = "stored"
       \/ inflight[r].pc = "selected" /\ inflight[r].customerId # NULL
    /\ resp' = [op |-> "create-subscription", u |-> inflight[r].userId,
                code |-> 200]
    /\ inflight' = [q \in DOMAIN inflight \ {r} |-> inflight[q]]
    /\ UNCHANGED <<users, now, stripe_customers, stripe_subs>>

ConcurrentNext ==
    \/ \E u \in UserIds : Register(u)
    \/ \E u \in UserIds : GetUserAccess(u)
    \/ StripeForeignCustomer
    \/ \E r \in RequestIds, u \in UserIds : CreateSubscriptionSelect(r, u)
    \/ \E r \in RequestIds : CreateSubscriptionCreateCustomer(r)
    \/ \E r \in RequestIds : CreateSubscriptionUpdate(r)
    \/ \E r \in RequestIds : CreateSubscriptionRespond(r)

ConcurrentSpec == Init /\ [][ConcurrentNext]_vars

\* ======================================================================
\* The webhook handlers and the expiry job served concurrently
\* ======================================================================
\* Under ReconcilerSpec a delivery to POST /api/webhooks/stripe is served one
\* query at a time, so that two deliveries interleave; RaceSpec adds the
\* expiry job, served one query at a time as well.  inflight[r] holds the
\* locals of delivery r (the event, what the re-fetch returned, result.rows)
\* and inflight[SweepJob] those of the job (the rows of result.rows it has
\* not updated yet).  A delivery takes the lowest request id that is free.

\* the key of the expiry job in inflight (request ids start at 1)
SweepJob == 0

\* The clock starts when user 1, registered earlier, has created its Stripe
\* customer through create-subscription and has InitialTrialLeft ticks of
\* trial left.
RaceInit ==
    /\ users = (1 :> [NewUser(InitialTrialLeft - TRIAL_DAYS * TicksPerDay)
                        EXCEPT !.stripe_customer_id = 1])
    /\ now = 0
    /\ stripe_customers = (1 :> 1)
    /\ stripe_subs = << >>
    /\ resp = NoResp
    /\ inflight = << >>

\* what the handler of a delivery writes: the subscription of the event or
\* the one re-fetched (update), the status canceled (cancel), or nothing
\* (lines 529-546, 610-622)
HandlerKind(event, retrieved) ==
    CASE event.type \in {"customer.subscription.created",
                         "customer.subscription.updated"} -> "update"
      [] event.type = "customer.subscription.deleted" -> "cancel"
      [] event.type = "invoice.payment_succeeded" /\ retrieved.ok -> "update"
      [] OTHER -> "none"

HandlerSubscription(event, retrieved) ==
    IF event.type = "invoice.payment_succeeded" /\ retrieved.ok
    THEN retrieved.subscription
    ELSE event

\* the row the UPDATE of handleSubscriptionUpdate leaves, lines 566-574
UpdatedRow(row, subscription) ==
    [row EXCEPT !.subscription_status = subscription.status,
                !.subscription_ends_at = subscription.current_period_end,
                !.stripe_subscription_id = subscription.id]

\* the row the UPDATE of handleSubscriptionCancel leaves, lines 595-601
CanceledRow(row) ==
    [row EXCEPT !.subscription_status = "canceled"]

\* lines 513-561 and 583-590: constructEvent, the switch, for
\* invoice.payment_succeeded the re-fetch (616), and the handler's
\* SELECT id FROM users WHERE stripe_customer_id = $1; unwritten is history:
\* the deliveries whose handler had run its SELECT and not yet its UPDATE
\* when this one ran its SELECT
WebhookSelect(r, event, fetchOk) ==
    /\ r \notin DOMAIN inflight
    /\ \A q \in RequestIds : q < r => q \in DOMAIN inflight
    /\ event \in StripeEvents
    /\ LET retrieved == IF event.type = "invoice.payment_succeeded"
                        THEN Retrieved(event.id, fetchOk)
                        ELSE [ok |-> FALSE]
       IN inflight' = inflight @@
              (r :> [pc |-> "selected", event |-> event, retrieved |-> retrieved,
                     unwritten |-> {q \in DOMAIN inflight :
                                       /\ q # SweepJob
                                       /\ inflight[q].pc = "selected"
                                       /\ inflight[q].rows # {}},
                     rows |-> IF HandlerKind(event, retrieved) = "none"
                              THEN {}
                              ELSE SelectByCustomer(users,
                                       HandlerSubscription(event, retrieved).customer)])
    /\ UNCHANGED <<users, now, stripe_customers, stripe_subs, resp>>

\* the handlers writing the status in one UPDATE and, for
\* handleSubscriptionUpdate, the end date and the subscription id in a second
WebhookUpdateFieldByField(r) ==
    /\ r \in DOMAIN inflight
    /\ r # SweepJob
    /\ inflight[r].pc \in {"selected", "status_written"}
    /\ inflight[r].rows # {}
    /\ LET userId == CHOOSE u \in inflight[r].rows : TRUE
           subscription == HandlerSubscription(inflight[r].event, inflight[r].retrieved)
           kind == HandlerKind(inflight[r].event, inflight[r].retrieved)
       IN IF inflight[r].pc = "selected"
          THEN /\ users' = [users EXCEPT ![userId].subscription_status =
                               IF kind = "update" THEN subscription.status
                               ELSE "canceled"]
               /\ inflight' = [inflight EXCEPT ![r].pc =
                                  IF kind = "update" THEN "status_written"
                                  ELSE "updated"]
          ELSE /\ users' = [users EXCEPT
                               ![userId].subscription_ends_at =
                                   subscription.current_period_end,
                               ![userId].stripe_subscription_id = subscription.id]
               /\ inflight' = [inflight EXCEPT ![r].pc = "updated"]
    /\ UNCHANGED <<now, stripe_customers, stripe_subs, resp>>

\* lines 563-574 and 592-601: result.rows.length > 0, UPDATE ... WHERE id = $n
WebhookUpdate(r) ==
    /\ r \in DOMAIN inflight
    /\ r # SweepJob
    /\ inflight[r].pc = "selected"
    /\ inflight[r].rows # {}
    /\ LET userId == CHOOSE u \in inflight[r].rows : TRUE
           subscription == HandlerSubscription(inflight[r].event, inflight[r].retrieved)
       IN users' = [users EXCEPT ![userId] =
                       IF HandlerKind(inflight[r].event, inflight[r].retrieved) = "update"
                       THEN UpdatedRow(@, subscription)
                       ELSE CanceledRow(@)]
    /\ inflight' = [inflight EXCEPT ![r].pc = "updated"]
    /\ UNCHANGED <<now, stripe_customers, stripe_subs, resp>>

\* line 548: res.json({received: true}); resp holds the answer alone
WebhookRespond(r) ==
    /\ r \in DOMAIN inflight
    /\ r # SweepJob
    /\ \/ inflight[r].pc = "updated"
       \/ inflight[r].pc = "selected" /\ inflight[r].rows = {}
    /\ resp' = [op |-> "delivery", code |-> 200, received |-> TRUE]
    /\ inflight' = [q \in DOMAIN inflight \ {r} |->
                       IF q = SweepJob THEN inflight[q]
                       ELSE [inflight[q] EXCEPT !.unwritten = @ \ {r}]]
    /\ UNCHANGED <<users, now, stripe_customers, stripe_subs>>

\* lines 930-939: the job starts at midnight and runs its SELECT
SweepSelect ==
    /\ SweepJob \notin DOMAIN inflight
    /\ now % TicksPerDay = 0
    /\ inflight' = inflight @@
           (SweepJob :> [pc |-> "selected",
                         rows |-> {u \in DOMAIN users : Expired(users[u], now)}])
    /\ UNCHANGED <<users, now, stripe_customers, stripe_subs, resp>>

\* lines 941-948: one turn of the loop, UPDATE ... WHERE id = $1
SweepUpdate ==
    /\ SweepJob \in DOMAIN inflight
    /\ \E u \in inflight[SweepJob].rows :
        /\ users' = [users EXCEPT ![u].subscription_status = "expired"]
        /\ inflight' = [inflight EXCEPT ![SweepJob].rows = @ \ {u}]
    /\ UNCHANGED <<now, stripe_customers, stripe_subs, resp>>

\* lines 954-957: the loop is over
SweepFinish ==
    /\ SweepJob \in DOMAIN inflight
    /\ inflight[SweepJob].rows = {}
    /\ inflight' = [q \in DOMAIN inflight \ {SweepJob} |-> inflight[q]]
    /\ resp' = [op |-> "sweep", code |-> 0]
    /\ UNCHANGED <<users, now, stripe_customers, stripe_subs>>

ReconcilerNext ==
    \/ Tick
    \/ \E c \in CustomerIds : StripeCheckoutPaid(c)
    \/ \E s \in SubscriptionIds : StripeRenew(s)
    \/ \E s \in SubscriptionIds : StripePastDue(s)
    \/ \E s \in SubscriptionIds : StripeCancel(s)
    \/ \E r \in RequestIds, ok \in BOOLEAN :
          \E e \in StripeEvents : WebhookSelect(r, e, ok)
    \/ \E r \in RequestIds : WebhookUpdate(r)
    \/ \E r \in RequestIds : WebhookRespond(r)

ReconcilerSpec == RaceInit /\ [][ReconcilerNext]_vars

RaceNext ==
    \/ Tick
    \/ \E c \in CustomerIds : StripeCheckoutPaid(c)
    \/ \E s \in SubscriptionIds : StripeRenew(s)
    \/ \E s \in SubscriptionIds : StripePastDue(s)
    \/ \E s \in SubscriptionIds : StripeCancel(s)
    \/ \E r \in RequestIds, ok \in BOOLEAN :
          \E e \in StripeEvents : WebhookSelect(r, e, ok)
    \/ \E r \in RequestIds : WebhookUpdate(r)
    \/ \E r \in RequestIds : WebhookRespond(r)
    \/ SweepSelect
    \/ SweepUpdate
    \/ SweepFinish

RaceSpec == RaceInit /\ [][RaceNext]_vars

\* ======================================================================
\* Properties
\* ======================================================================
\* The two rules of the access evaluation, as the specification words them.
\* rule 1: trialEndsAt is present and now < trialEndsAt
TrialRule(user, t) ==
    user.trial_ends_at # NULL /\ t < user.trial_ends_at

\* rule 2: subscriptionStatus = active, subscriptionEndsAt present, now < it
ActiveRule(user, t) ==
    /\ user.subscription_status = "active"
    /\ user.subscription_ends_at # NULL
    /\ t < user.subscription_ends_at

\* what GET /api/user/access answers for a record: (entitled, status)
Answer(user, t) ==
    <<UserAccess(user, t).has_access, UserAccess(user, t).status>>

\* C1: every record whose trialEndsAt is present and later than now is
\* reported entitled with status trial by GET /api/user/access and let
\* through by requireActiveSubscription as a trial, whatever its
\* subscriptionStatus and subscriptionEndsAt are.
C1_TrialGrantsAccess ==
    \A u \in DOMAIN users :
        TrialRule(users[u], now) =>
            /\ Answer(users[u], now) = <<TRUE, "trial">>
            /\ RequireActiveSubscription(users[u], now).pass
            /\ RequireActiveSubscription(users[u], now).flag = "trialActive"

\* C1 witness: the access check has just answered for a user whose trial is
\* running while the record already carries an active, paid subscription
C1_Witness ==
    /\ resp.op = "access" /\ resp.code = 200
    /\ TrialRule(users[resp.u], now)
    /\ users[resp.u].subscription_status = "active"
    /\ users[resp.u].subscription_ends_at # NULL
    /\ resp.body.has_access /\ resp.body.status = "trial"

\* C2: every record whose trial is absent or over, with status active and
\* subscriptionEndsAt present and later than now, is reported entitled with
\* status active and let through by the gate.
C2_ActiveGrantsAccess ==
    \A u \in DOMAIN users :
        (~TrialRule(users[u], now) /\ ActiveRule(users[u], now)) =>
            /\ Answer(users[u], now) = <<TRUE, "active">>
            /\ RequireActiveSubscription(users[u], now).pass
            /\ RequireActiveSubscription(users[u], now).flag = "subscriptionActive"

\* C2 witness: a protected request has just passed the gate for a user whose
\* trial is over and whose subscription is active and not yet ended
C2_Witness ==
    /\ resp.op = "protected" /\ resp.code = 200
    /\ ~TrialRule(users[resp.u], now)
    /\ ActiveRule(users[resp.u], now)
    /\ resp.body.flag = "subscriptionActive"

\* C3: every record that satisfies neither rule is reported not entitled with
\* status expired, and the gate refuses the request (402).
C3_NeitherRuleDenies ==
    \A u \in DOMAIN users :
        (~TrialRule(users[u], now) /\ ~ActiveRule(users[u], now)) =>
            /\ Answer(users[u], now) = <<FALSE, "expired">>
            /\ ~RequireActiveSubscription(users[u], now).pass
            /\ RequireActiveSubscription(users[u], now).code = 402

\* C3 witness: a protected request has just been refused for a user whose
\* trial window and subscription window are both in the past
C3_Witness ==
    /\ resp.op = "protected" /\ resp.code = 402
    /\ users[resp.u].trial_ends_at # NULL
    /\ users[resp.u].trial_ends_at < now
    /\ users[resp.u].subscription_ends_at # NULL
    /\ users[resp.u].subscription_ends_at < now
\* the records linked to the customer an event names
Linked(customerRef) ==
    {u \in DOMAIN users : users[u].stripe_customer_id = customerRef}

SubscriptionUpdateTypes ==
    {"customer.subscription.created", "customer.subscription.updated"}

\* the step is a delivery of the signed event e to POST /api/webhooks/stripe
Delivery(e) ==
    /\ resp'.op = "webhook"
    /\ resp'.code = 200
    /\ resp'.event = e
    /\ \E ok \in BOOLEAN : Webhook(e, ok)

\* the event of the delivery a step makes, if it makes one
Delivered == IF resp'.op = "webhook" /\ resp'.code = 200 THEN {resp'.event} ELSE {}

C5_CancelSetsOnlyStatus ==
    [][\A e \in Delivered :
        (Delivery(e) /\ e.type = "customer.subscription.deleted") =>
            \A u \in Linked(e.customer) :
                /\ users'[u].subscription_status = "canceled"
                /\ users'[u].subscription_ends_at = users[u].subscription_ends_at
                /\ users'[u].trial_ends_at = users[u].trial_ends_at
                /\ users'[u].stripe_customer_id = users[u].stripe_customer_id
                /\ users'[u].stripe_subscription_id =
                       users[u].stripe_subscription_id]_vars

\* C5 witness: a cancellation has just been applied to a linked record that
\* holds an end date and a subscription reference
C5_Witness ==
    /\ resp.op = "webhook" /\ resp.code = 200
    /\ resp.event.type = "customer.subscription.deleted"
    /\ \E u \in Linked(resp.event.customer) :
        /\ users[u].subscription_status = "canceled"
        /\ users[u].subscription_ends_at # NULL
        /\ users[u].stripe_subscription_id # NULL

\* C6: applying SubscriptionCreatedOrUpdated{customerRef, subscriptionRef,
\* status, periodEnd} when a record is linked to customerRef sets that
\* record's subscriptionStatus to status, subscriptionEndsAt to periodEnd and
\* billingSubscriptionRef to subscriptionRef, whatever they were before.
C6_UpdateOverwrites ==
    [][\A e \in Delivered :
        (Delivery(e) /\ e.type \in SubscriptionUpdateTypes) =>
            \A u \in Linked(e.customer) :
                /\ users'[u].subscription_status = e.status
                /\ users'[u].subscription_ends_at = e.current_period_end
                /\ users'[u].stripe_subscription_id = e.id]_vars

\* C6 witness: an update event carrying an older period end than the one
\* Stripe holds now has just been applied to the linked record
C6_Witness ==
    /\ resp.op = "webhook" /\ resp.code = 200
    /\ resp.event.type \in SubscriptionUpdateTypes
    /\ resp.event.id \in DOMAIN stripe_subs
    /\ resp.event.current_period_end < Current(resp.event.id).current_period_end
    /\ \E u \in Linked(resp.event.customer) :
        /\ users[u].subscription_status = resp.event.status
        /\ users[u].subscription_ends_at = resp.event.current_period_end

\* C7: a SubscriptionCreatedOrUpdated or SubscriptionCanceled event whose
\* customerRef matches no record changes no record, and the webhook still
\* acknowledges it (200, received: true).
C7_UnknownCustomerIsNoOp ==
    [][\A e \in Delivered :
        (/\ Delivery(e)
         /\ e.type \in SubscriptionUpdateTypes \cup {"customer.subscription.deleted"}
         /\ Linked(e.customer) = {}) =>
            /\ users' = users
            /\ resp'.code = 200
            /\ resp'.received]_vars

\* C7 witness: an event for a customer no record is linked to has just been
\* acknowledged while some record has no customer yet
C7_Witness ==
    /\ resp.op = "webhook" /\ resp.code = 200 /\ resp.received
    /\ resp.event.type \in SubscriptionUpdateTypes \cup {"customer.subscription.deleted"}
    /\ Linked(resp.event.customer) = {}
    /\ \E u \in DOMAIN users : users[u].stripe_customer_id = NULL
\* C8 as stated: for every event variant, a second delivery of an event right
\* after a delivery of the same event leaves every record as the first left it.
C8_SecondDeliveryChangesNothing ==
    [][\A e \in Delivered :
        (Delivery(e) /\ resp'.again) => users' = users]_vars

\* C8 amended: a second delivery of an event right after a delivery of the
\* same event leaves every record as the first left it, for
\* SubscriptionCreatedOrUpdated, SubscriptionCanceled and PaymentFailed
\* always, and for PaymentSucceeded when the re-fetch of the subscription
\* answers the second time as it did the first (the same subscription state,
\* or a failure both times).
C8_SecondDeliverySameAnswerChangesNothing ==
    [][\A e \in Delivered :
        (/\ Delivery(e)
         /\ resp'.again
         /\ e.type = "invoice.payment_succeeded" => resp'.retrieved = resp.retrieved)
        => users' = users]_vars

\* C8 witness: a PaymentSucceeded event has just been delivered a second time
\* in succession, its re-fetch succeeded, and the linked record holds what
\* was fetched
C8_Witness ==
    /\ resp.op = "webhook" /\ resp.code = 200
    /\ resp.again
    /\ resp.event.type = "invoice.payment_succeeded"
    /\ resp.retrieved.ok
    /\ \E u \in Linked(resp.event.customer) :
        /\ users[u].subscription_status = resp.retrieved.subscription.status
        /\ users[u].subscription_ends_at =
               resp.retrieved.subscription.current_period_end
\* the subscription events (created, updated, deleted) Stripe has sent for s
SubscriptionEventsOf(s) ==
    {SubscriptionEvent(s, i) : i \in 1..Len(stripe_subs[s])}

\* The orders in which the events of a set can be applied are its
\* permutations, and each permutation followed by one re-delivery.
\* Outcomes(us, rest, last, all) is the outcomes of the orders of all that
\* continue, from the table us, with the events of rest: each outcome is the
\* table the order ends with and the event it applied last (orders that
\* begin alike share their beginning).
RECURSIVE Outcomes(_, _, _, _)
Outcomes(us, rest, last, all) ==
    IF rest = {}
    THEN {<<us, last>>}
         \cup {<<Dispatch(us, e, [ok |-> FALSE]), e>> : e \in all}
    ELSE UNION {Outcomes(Dispatch(us, e, [ok |-> FALSE]), rest \ {e}, e, all)
                : e \in rest}

\* the outcomes of applying the subscription events of s in every order
OrderOutcomes(s) ==
    Outcomes(users, SubscriptionEventsOf(s), NULL, SubscriptionEventsOf(s))

\* (subscriptionStatus, subscriptionEndsAt, billingSubscriptionRef)
Triple(user) ==
    <<user.subscription_status, user.subscription_ends_at,
      user.stripe_subscription_id>>

\* the same three fields of a Stripe subscription or subscription event
Carried(sub) == <<sub.status, sub.current_period_end, sub.id>>

\* C9 as stated: with S the state Stripe holds for a subscription and the
\* subscription events Stripe has sent for it, applying those events to the
\* linked record in any order, with re-deliveries, ends with the record's
\* subscriptionStatus, subscriptionEndsAt and billingSubscriptionRef equal to S.
C9_AnyOrderEndsAtFinalState ==
    \A s \in DOMAIN stripe_subs :
        \A u \in Linked(Current(s).customer) :
            \A o \in OrderOutcomes(s) :
                Triple(o[1][u]) = Carried(Current(s))

\* C9 amended: applying those events in any order, with re-deliveries, ends
\* with the three fields equal to what the event applied last carries when
\* that event is a created/updated event (last overwrite wins); so the
\* record ends equal to S in the orders that apply the event carrying S last,
\* and an order that ends with an older event leaves that older state.
C9_LastAppliedEventWins ==
    \A s \in DOMAIN stripe_subs :
        \A u \in Linked(Current(s).customer) :
            \A o \in OrderOutcomes(s) :
                o[2].type \in SubscriptionUpdateTypes =>
                    LET result == Triple(o[1][u]) IN
                    /\ result = Carried(o[2])
                    /\ Carried(o[2]) = Carried(Current(s)) =>
                           result = Carried(Current(s))

\* C9 witness: Stripe has sent events carrying different states for one
\* subscription, the event carrying the state Stripe holds now was delivered
\* last, and the linked record holds that state
C9_Witness ==
    /\ resp.op = "webhook" /\ resp.code = 200
    /\ resp.event.type \in SubscriptionUpdateTypes
    /\ \E s \in DOMAIN stripe_subs :
        /\ Len(stripe_subs[s]) >= 2
        /\ Carried(stripe_subs[s][1]) # Carried(Current(s))
        /\ resp.event = SubscriptionEvent(s, Len(stripe_subs[s]))
        /\ \E u \in Linked(Current(s).customer) :
               Triple(users[u]) = Carried(Current(s))
\* C10: after one run of the expiry sweep at time now, every record that had
\* subscriptionStatus = active and subscriptionEndsAt strictly earlier than
\* now has subscriptionStatus = expired (its other fields as they were), and
\* every record whose subscriptionEndsAt is later than now, or whose status
\* was not active, is exactly as it was.
C10_SweepExpiresStaleActive ==
    [][(resp'.op = "sweep" /\ ExpiryJob) =>
        \A u \in DOMAIN users :
            /\ (/\ users[u].subscription_status = "active"
                /\ users[u].subscription_ends_at # NULL
                /\ users[u].subscription_ends_at < now) =>
                   users'[u] = [users[u] EXCEPT !.subscription_status = "expired"]
            /\ (\/ users[u].subscription_status # "active"
                \/ (/\ users[u].subscription_ends_at # NULL
                    /\ users[u].subscription_ends_at > now)) =>
                   users'[u] = users[u]]_vars

\* C10 witness: the sweep has just run and left a record expired whose end
\* date is in the past, next to a record it did not touch
C10_Witness ==
    /\ resp.op = "sweep"
    /\ \E u \in DOMAIN users :
        /\ users[u].subscription_status = "expired"
        /\ users[u].subscription_ends_at # NULL
        /\ users[u].subscription_ends_at < now
        /\ \E v \in DOMAIN users \ {u} : users[v].subscription_status = "trial"
\* C11: a webhook delivery whose signature fails verification is answered
\* with a client-error status (4xx, not received) and no handler runs for it:
\* every record is afterwards exactly as it was.
C11_InvalidSignatureRejected ==
    [][\A p \in UnsignedPayloads :
        (resp'.op = "webhook" /\ WebhookInvalidSignature(p)) =>
            /\ resp'.code \in 400..499
            /\ ~resp'.received
            /\ users' = users]_vars

\* C11 witness: a body with a bad signature has just been refused that names
\* the customer of a record which is not active, so that handling it would
\* have changed the record
C11_Witness ==
    /\ resp.op = "webhook" /\ resp.code = 400
    /\ \E u \in Linked(resp.payload.customer) :
        /\ users[u].subscription_status # "active"
        /\ users[u].subscription_ends_at # resp.payload.current_period_end
\* C12 as stated: in index.js's POST /webhook, a body that does not carry a
\* valid signature is rejected (not answered 200) and sets no user's
\* subscription_active.
C12_UnsignedEventRejected ==
    [][\A event \in IndexPayloads :
        (resp'.op = "webhook" /\ IndexWebhook(event) /\ ~event.signatureValid) =>
            /\ resp'.code # 200
            /\ \A e \in DOMAIN users :
                   users'[e].subscription_active = users[e].subscription_active]_vars
\* C12 witness: a checkout.session.completed body without a valid signature
\* has just been acknowledged, and the user it names, whose trial is over and
\* who is neither admin nor on free access, now has subscription access
C12_Witness ==
    /\ resp.op = "webhook" /\ resp.code = 200
    /\ "signatureValid" \in DOMAIN resp.event
    /\ ~resp.event.signatureValid
    /\ resp.event.type = "checkout.session.completed"
    /\ resp.event.customer_email \in DOMAIN users
    /\ LET user == users[resp.event.customer_email] IN
        /\ ~user.is_admin /\ ~user.free_access
        /\ user.trial_end < now
        /\ user.subscription_active
        /\ HasAccess(user, now)
\* C13: when the re-fetch of the subscription fails or times out while a
\* PaymentSucceeded event is processed, that event changes no field of any
\* record; and when it succeeds the linked record gets all three fields of
\* the fetched subscription (the update is applied entirely or not at all).
C13_FailedRefetchChangesNothing ==
    [][\A e \in Delivered :
        (Delivery(e) /\ e.type = "invoice.payment_succeeded") =>
            IF resp'.retrieved.ok
            THEN \A u \in DOMAIN users :
                    IF u \in Linked(e.customer)
                    THEN Triple(users'[u]) = Carried(resp'.retrieved.subscription)
                    ELSE users'[u] = users[u]
            ELSE users' = users]_vars

\* C13 witness: a PaymentSucceeded event has just been processed with a
\* failed re-fetch, for a record that differs from what Stripe holds, so
\* that a successful re-fetch would have changed it
C13_Witness ==
    /\ resp.op = "webhook" /\ resp.code = 200
    /\ resp.event.type = "invoice.payment_succeeded"
    /\ ~resp.retrieved.ok
    /\ \E u \in Linked(resp.event.customer) :
        /\ users[u].subscription_status # "active"
        /\ Triple(users[u]) # Carried(Current(resp.event.id))
\* C14 as stated: whenever processing of a signature-verified event fails
\* (here: the re-fetch of a PaymentSucceeded event fails or times out), the
\* webhook answers with a non-success status and does not acknowledge the
\* event with received: true.
C14_FailureAnsweredNonSuccess ==
    [][\A e \in Delivered :
        (/\ \E ok \in BOOLEAN : Webhook(e, ok)
         /\ e.type = "invoice.payment_succeeded"
         /\ ~resp'.retrieved.ok) =>
            /\ resp'.code \notin 200..299
            /\ ~resp'.received]_vars

\* C14 witness: a PaymentSucceeded event whose re-fetch failed has just been
\* acknowledged with 200 received: true, while Stripe holds an active, paid
\* subscription for the customer and the gate refuses the customer's user
C14_Witness ==
    /\ resp.op = "webhook" /\ resp.code = 200 /\ resp.received
    /\ resp.event.type = "invoice.payment_succeeded"
    /\ ~resp.retrieved.ok
    /\ Current(resp.event.id).status = "active"
    /\ Current(resp.event.id).current_period_end > now
    /\ \E u \in Linked(resp.event.customer) :
        ~RequireActiveSubscription(users[u], now).pass
\* C15: applying a PaymentFailed event leaves every field of every record
\* unchanged.
C15_PaymentFailedChangesNothing ==
    [][\A e \in Delivered :
        (Delivery(e) /\ e.type = "invoice.payment_failed") =>
            users' = users]_vars

\* C15 witness: a PaymentFailed event has just been applied for a customer
\* whose record is linked and still active
C15_Witness ==
    /\ resp.op = "webhook" /\ resp.code = 200
    /\ resp.event.type = "invoice.payment_failed"
    /\ \E u \in Linked(resp.event.customer) :
        /\ users[u].subscription_status = "active"
        /\ users[u].subscription_ends_at # NULL
\* C16: after registration has set a user's trialEndsAt, no login, access
\* check, checkout or verify request, billing event or sweep changes, clears
\* or extends it: every step leaves every record in place with the
\* trialEndsAt it had.
C16_TrialEndsAtNeverChanges ==
    [][\A u \in DOMAIN users :
        /\ u \in DOMAIN users'
        /\ users'[u].trial_ends_at = users[u].trial_ends_at]_vars

\* C16 witness: the sweep has just expired the subscription of a record that
\* was linked to a customer and activated after its registration, and the
\* record still carries the trialEndsAt its registration gave it
C16_Witness ==
    /\ resp.op = "sweep"
    /\ 1 \in DOMAIN users
    /\ users[1].subscription_status = "expired"
    /\ users[1].stripe_customer_id # NULL
    /\ users[1].stripe_subscription_id # NULL
    /\ users[1].trial_ends_at = InitialTrialLeft
\* C17 as stated: a user's billingCustomerRef is written at most once: after
\* any interleaving of create-subscription requests, including two requests
\* by the same user that both read the record before either writes, a stored
\* non-null value is never replaced by a different one.
C17_CustomerRefWrittenOnce ==
    [][\A u \in DOMAIN users :
        users[u].stripe_customer_id # NULL =>
            users'[u].stripe_customer_id = users[u].stripe_customer_id]_vars

\* C17 witness: two requests of one user have both stored the customer each
\* created; the record holds the second and Stripe keeps both customers
C17_Witness ==
    /\ DOMAIN inflight = RequestIds
    /\ inflight[1].pc = "stored" /\ inflight[2].pc = "stored"
    /\ inflight[1].userId = inflight[2].userId
    /\ inflight[1].customerId # inflight[2].customerId
    /\ stripe_customers[inflight[1].customerId] = inflight[1].userId
    /\ stripe_customers[inflight[2].customerId] = inflight[1].userId
    /\ users[inflight[1].userId].stripe_customer_id \in
           {inflight[1].customerId, inflight[2].customerId}
\* the period ends the billing system has held for the subscriptions of a
\* customer
BillingPeriodEnds(customerRef) ==
    UNION {{stripe_subs[s][i].current_period_end :
                i \in {j \in 1..Len(stripe_subs[s]) :
                         stripe_subs[s][j].customer = customerRef}}
           : s \in DOMAIN stripe_subs}

\* C18: in every state reached by registration, billing events, payment
\* verification and sweeps, a record with subscriptionStatus = active has a
\* subscriptionEndsAt that is present and is a period end the billing system
\* held for its customer; and the write that makes a record active is a
\* webhook delivery or a payment verification that writes, with the status,
\* the period end of the billing object it handles.
C18_ActiveHasBillingEnd ==
    [][\A u \in DOMAIN users' :
        users'[u].subscription_status = "active" =>
            /\ users'[u].subscription_ends_at # NULL
            /\ users'[u].subscription_ends_at \in
                   BillingPeriodEnds(users'[u].stripe_customer_id)
            /\ (u \notin DOMAIN users \/ users[u].subscription_status # "active") =>
                   CASE resp'.op = "webhook" /\ resp'.code = 200 ->
                            IF resp'.event.type \in SubscriptionUpdateTypes
                            THEN users'[u].subscription_ends_at =
                                     resp'.event.current_period_end
                            ELSE /\ resp'.event.type = "invoice.payment_succeeded"
                                 /\ resp'.retrieved.ok
                                 /\ users'[u].subscription_ends_at =
                                        resp'.retrieved.subscription.current_period_end
                     [] resp'.op = "verify" ->
                            /\ users'[u].stripe_subscription_id \in DOMAIN stripe_subs
                            /\ users'[u].subscription_ends_at =
                                   Current(users'[u].stripe_subscription_id).current_period_end
                     [] OTHER -> FALSE]_vars

\* C18 witness: payment verification has just made active a record that was
\* not, some time after Stripe opened the subscription, and the record
\* carries the subscription's period end
C18_Witness ==
    /\ resp.op = "verify" /\ resp.success
    /\ \E u \in DOMAIN users :
        /\ users[u].subscription_status = "active"
        /\ users[u].stripe_subscription_id \in DOMAIN stripe_subs
        /\ users[u].subscription_ends_at =
               Current(users[u].stripe_subscription_id).current_period_end
        /\ users[u].subscription_ends_at < now + PeriodTicks
\* C19 as stated: in every reachable state every record's subscriptionStatus
\* is one of trial, active, canceled, expired, inactive, whatever status the
\* billing system carries in the subscription events that are applied.
C19_StatusInEnum ==
    \A u \in DOMAIN users :
        users[u].subscription_status \in
            {"trial", "active", "canceled", "expired", "inactive"}

\* C19 witness: a subscription event carrying Stripe's status past_due has
\* just been applied and the linked record stores that status
C19_Witness ==
    /\ resp.op = "webhook" /\ resp.code = 200
    /\ resp.event.type = "customer.subscription.updated"
    /\ resp.event.status = "past_due"
    /\ \E u \in Linked(resp.event.customer) :
        users[u].subscription_status = "past_due"
\* d is the least integer >= 1 such that d whole days cover the time left
LeastDays(d, left) ==
    /\ d >= 1
    /\ d * TicksPerDay >= left
    /\ (d - 1) * TicksPerDay < left

\* the day counts of the three endpoints for a record, none of them negative
DayCountsNotNegative(user, t) ==
    /\ UserAccess(user, t).daysLeft >= 0
    /\ UserSubscription(user, t).trial_days_remaining >= 0
    /\ UserSubscription(user, t).subscription_days_remaining >= 0
    /\ LoginTrialDaysRemaining(user, t) >= 0

\* the day counts of an entitled record: the least number of whole days
\* covering the time left to the governing end timestamp
EntitledDayCounts(user, t) ==
    /\ TrialRule(user, t) =>
        /\ LeastDays(UserAccess(user, t).daysLeft, user.trial_ends_at - t)
        /\ LeastDays(UserSubscription(user, t).trial_days_remaining,
                     user.trial_ends_at - t)
        /\ LeastDays(LoginTrialDaysRemaining(user, t), user.trial_ends_at - t)
    /\ (~TrialRule(user, t) /\ ActiveRule(user, t)) =>
        /\ LeastDays(UserAccess(user, t).daysLeft, user.subscription_ends_at - t)
        /\ LeastDays(UserSubscription(user, t).subscription_days_remaining,
                     user.subscription_ends_at - t)

\* C20 as stated: for an entitled record the days remaining is the least
\* d >= 1 such that d days cover the time left to the governing end
\* timestamp; for a record that is not entitled the days remaining is 0; it
\* is never negative.  Read over the day counts of GET /api/user/access and
\* GET /api/user/subscription.
C20_DaysRemaining ==
    \A u \in DOMAIN users :
        /\ EntitledDayCounts(users[u], now)
        /\ DayCountsNotNegative(users[u], now)
        /\ (~TrialRule(users[u], now) /\ ~ActiveRule(users[u], now)) =>
            /\ UserAccess(users[u], now).daysLeft = 0
            /\ UserSubscription(users[u], now).trial_days_remaining = 0
            /\ UserSubscription(users[u], now).subscription_days_remaining = 0

\* C20 amended: for an entitled record the days remaining is the least
\* d >= 1 covering the time left to the governing end timestamp, no count
\* is ever negative, and for a record that is not entitled the access
\* evaluation names no days (0) and trial_days_remaining is 0; but GET
\* /api/user/subscription computes subscription_days_remaining from
\* subscriptionEndsAt alone: it is the least d >= 1 covering the time left
\* whenever subscriptionEndsAt is in the future, whatever the status, so a
\* record that is not entitled (canceled, past_due) still shows days.
C20_DaysRemainingPerEndpoint ==
    \A u \in DOMAIN users :
        /\ EntitledDayCounts(users[u], now)
        /\ DayCountsNotNegative(users[u], now)
        /\ (~TrialRule(users[u], now) /\ ~ActiveRule(users[u], now)) =>
            /\ UserAccess(users[u], now).daysLeft = 0
            /\ UserSubscription(users[u], now).trial_days_remaining = 0
            /\ LoginTrialDaysRemaining(users[u], now) = 0
        /\ IF /\ users[u].subscription_ends_at # NULL
              /\ users[u].subscription_ends_at > now
           THEN LeastDays(UserSubscription(users[u], now).subscription_days_remaining,
                          users[u].subscription_ends_at - now)
           ELSE UserSubscription(users[u], now).subscription_days_remaining = 0

\* C20 witness: GET /api/user/subscription has just answered for a record
\* that is not entitled (trial over, status not active) with a positive
\* subscription_days_remaining
C20_Witness ==
    /\ resp.op = "subscription" /\ resp.code = 200
    /\ ~TrialRule(users[resp.u], now)
    /\ ~ActiveRule(users[resp.u], now)
    /\ ~UserAccess(users[resp.u], now).has_access
    /\ resp.body.subscription_days_remaining >= 1
    /\ resp.body.trial_days_remaining = 0
\* the records the expiry job updates in a step: those leaving result.rows
SweepWrites ==
    IF SweepJob \in DOMAIN inflight /\ SweepJob \in DOMAIN inflight'
    THEN inflight[SweepJob].rows \ inflight'[SweepJob].rows
    ELSE {}

\* C21 as stated: under every interleaving of the expiry sweep with the
\* billing-event handlers, the sweep writes expired only to a record that at
\* the moment of the write is active with subscriptionEndsAt earlier than
\* now; it never marks expired a record renewed to a future end date between
\* its scan and its write.
C21_SweepWritesOnlyStaleActive ==
    [][\A u \in SweepWrites :
        SweepUpdate =>
            /\ users[u].subscription_status = "active"
            /\ users[u].subscription_ends_at # NULL
            /\ users[u].subscription_ends_at < now]_vars

\* C21 witness: the job has written its last row and a record is expired
\* whose end date is in the future and is the period end of the active
\* subscription Stripe holds for its customer
C21_Witness ==
    /\ SweepJob \in DOMAIN inflight
    /\ inflight[SweepJob].rows = {}
    /\ \E u \in DOMAIN users, s \in DOMAIN stripe_subs :
        /\ users[u].subscription_status = "expired"
        /\ users[u].subscription_ends_at > now
        /\ Current(s).customer = users[u].stripe_customer_id
        /\ Current(s).status = "active"
        /\ Current(s).current_period_end = users[u].subscription_ends_at
\* the record is expired with a future end date while Stripe holds an active
\* subscription of its customer with that period end, and nothing is in flight
RaceLeftContradiction(u, s) ==
    /\ inflight = << >>
    /\ users[u].subscription_status = "expired"
    /\ users[u].subscription_ends_at > now
    /\ Current(s).customer = users[u].stripe_customer_id
    /\ Current(s).status = "active"
    /\ Current(s).current_period_end = users[u].subscription_ends_at

\* C22 as stated: when a race of the sweep and the reconciler has left a
\* record contradicting the billing state, the next sweep run and the next
\* billing event for that customer each bring the record to the state
\* billing holds; the contradiction does not persist.
C22_NextSweepOrEventConverges ==
    \A u \in DOMAIN users, s \in DOMAIN stripe_subs :
        RaceLeftContradiction(u, s) =>
            /\ Triple(Sweep(users, now)[u]) = Carried(Current(s))
            /\ \A e \in StripeEvents, ok \in BOOLEAN :
                   e.customer = users[u].stripe_customer_id =>
                       Triple(Dispatch(users, e, Retrieved(e.id, ok))[u])
                           = Carried(Current(s))

\* C22 witness: the race is over, the record contradicts billing, and the
\* sweep run now leaves it as it is
C22_Witness ==
    \E u \in DOMAIN users, s \in DOMAIN stripe_subs :
        /\ RaceLeftContradiction(u, s)
        /\ resp.op = "sweep"
        /\ Sweep(users, now)[u] = users[u]
\* the handler of request r applied whole to the table us
Serial(us, r) == Dispatch(us, inflight[r].event, inflight[r].retrieved)

\* requests 1 and 2 overlap, one ran its SELECT between the SELECT and the
\* UPDATE of the other, and both have run their UPDATE on the record u
BothUpdated(u) ==
    /\ DOMAIN inflight = RequestIds
    /\ \/ 1 \in inflight[2].unwritten
       \/ 2 \in inflight[1].unwritten
    /\ \A r \in RequestIds :
        /\ inflight[r].pc = "updated"
        /\ u \in inflight[r].rows
        /\ u = CHOOSE v \in inflight[r].rows : TRUE

\* C23: when the handlers of two billing events for the same customer
\* overlap, then whatever the interleaving of their lookups and updates, once
\* both have written the record's subscriptionStatus, subscriptionEndsAt and
\* billingSubscriptionRef are those that handling the two events one after
\* the other, in one of the two orders, leaves; never a mix of the fields of
\* the two events. (The result of the two handlers in sequence depends on the
\* record they start from only through fields neither of them writes.)
C23_OverlappingEventsSerialize ==
    \A u \in DOMAIN users :
        BothUpdated(u) =>
            Triple(users[u]) \in {Triple(Serial(Serial(users, 1), 2)[u]),
                                  Triple(Serial(Serial(users, 2), 1)[u])}

\* C23 witness: two overlapping handlers have both written the record, their
\* events carry different end dates, the two orders give different records
\* and the record is the one of the order that ends with request 1 although
\* request 1 ran its lookup first
C23_Witness ==
    \E u \in DOMAIN users :
        /\ BothUpdated(u)
        /\ HandlerKind(inflight[1].event, inflight[1].retrieved) = "update"
        /\ HandlerKind(inflight[2].event, inflight[2].retrieved) = "update"
        /\ HandlerSubscription(inflight[1].event, inflight[1].retrieved).current_period_end
             # HandlerSubscription(inflight[2].event, inflight[2].retrieved).current_period_end
        /\ Triple(Serial(Serial(users, 1), 2)[u]) # Triple(Serial(Serial(users, 2), 1)[u])
        /\ Triple(users[u]) = Triple(Serial(Serial(users, 2), 1)[u])
\* C24 as stated: every write of the webhook handlers that sets a record's
\* subscriptionStatus to active also sets its subscriptionEndsAt to an
\* instant strictly later than the time of the write, also when the event is
\* delivered late, again or after a later one.
C24_ActiveWrittenWithFutureEnd ==
    [][\A e \in Delivered :
        (/\ Delivery(e)
         /\ HandlerKind(e, resp'.retrieved) = "update"
         /\ HandlerSubscription(e, resp'.retrieved).status = "active") =>
            \A u \in Linked(HandlerSubscription(e, resp'.retrieved).customer) :
                /\ users'[u].subscription_status = "active"
                /\ users'[u].subscription_ends_at > now]_vars

\* C24 witness: the delivery of a subscription event that Stripe sent a
\* period ago has just set a linked record active with the end date the
\* event carries, which is not later than now, while Stripe holds a later one
C24_Witness ==
    /\ resp.op = "webhook" /\ resp.code = 200
    /\ resp.event.type \in SubscriptionUpdateTypes
    /\ resp.event.status = "active"
    /\ resp.event.current_period_end <= now
    /\ Current(resp.event.id).current_period_end > now
    /\ \E u \in Linked(resp.event.customer) :
        /\ users[u].subscription_status = "active"
        /\ users[u].subscription_ends_at = resp.event.current_period_end
\* the operations of the authenticated API: login, access check,
\* subscription info, checkout creation, payment verification and the
\* protected diary and analysis endpoints
ApiOps ==
    {"login", "access", "subscription", "create-subscription", "verify",
     "protected"}

\* C25 as stated: once a record exists, no request to the authenticated API
\* (login, access check, subscription info, checkout creation, payment
\* verification, diary, analysis) changes its subscriptionStatus,
\* subscriptionEndsAt or billingSubscriptionRef, the caller's or another
\* user's; only the billing-event handlers and the expiry sweep do.
C25_ApiRequestsLeaveTripleAlone ==
    [][resp'.op \in ApiOps =>
        \A u \in DOMAIN users :
            /\ u \in DOMAIN users'
            /\ Triple(users'[u]) = Triple(users[u])]_vars

\* C25 witness: a payment verification has just answered success and the
\* record named by the checkout session is active with the period end and
\* the id of the subscription Stripe has just created for the session
C25_Witness ==
    /\ resp.op = "verify" /\ resp.success
    /\ \E u \in DOMAIN users :
        /\ users[u].subscription_status = "active"
        /\ users[u].stripe_subscription_id \in DOMAIN stripe_subs
        /\ users[u].stripe_customer_id # NULL
        /\ Triple(users[u]) = <<"active",
               Current(users[u].stripe_subscription_id).current_period_end,
               users[u].stripe_subscription_id>>
        /\ Len(stripe_subs[users[u].stripe_subscription_id]) = 1
\* C26: for every record and every instant the three places that decide
\* entitlement agree: requireActiveSubscription lets a request through
\* exactly when GET /api/user/access reports has_access = true and exactly
\* when POST /api/auth/login reports requires_subscription = false.
C26_GateAccessLoginAgree ==
    \A u \in DOMAIN users :
        /\ RequireActiveSubscription(users[u], now).pass
               = UserAccess(users[u], now).has_access
        /\ RequireActiveSubscription(users[u], now).pass
               = ~LoginSubscription(users[u], now).requires_subscription

\* C26 witness: a login has just reported requires_subscription = true for a
\* record whose trial is over and whose subscription is canceled with its end
\* date still ahead, which the gate refuses and the access route reports
\* without access
C26_Witness ==
    /\ resp.op = "login" /\ resp.code = 200
    /\ resp.requires_subscription
    /\ resp.u \in DOMAIN users
    /\ users[resp.u].trial_ends_at <= now
    /\ users[resp.u].subscription_status = "canceled"
    /\ users[resp.u].subscription_ends_at > now
    /\ ~RequireActiveSubscription(users[resp.u], now).pass
    /\ ~UserAccess(users[resp.u], now).has_access
\* C27: a run of the expiry job at time now, alone, changes the outcome of
\* the access evaluation at now for no record: every record it marks expired
\* was already not entitled through its subscription, the gate decides the
\* same before and after, and GET /api/user/access reports the same
\* has_access and status (an entitled record stays entitled).
C27_SweepKeepsAccessOutcome ==
    [][(resp'.op = "sweep" /\ ExpiryJob) =>
        \A u \in DOMAIN users :
            /\ users'[u] # users[u] =>
                   /\ users'[u].subscription_status = "expired"
                   /\ ~ActiveRule(users[u], now)
            /\ UserAccess(users'[u], now) = UserAccess(users[u], now)
            /\ RequireActiveSubscription(users'[u], now)
                   = RequireActiveSubscription(users[u], now)]_vars

\* C27 witness: the job has run at now and a record whose trial is over is
\* expired with an end date within the last day, so that no earlier day's
\* run marked it, while another record is entitled
C27_Witness ==
    /\ resp.op = "sweep"
    /\ \E u, v \in DOMAIN users :
        /\ users[u].subscription_status = "expired"
        /\ users[u].trial_ends_at <= now
        /\ users[u].subscription_ends_at < now
        /\ users[u].subscription_ends_at >= now - TicksPerDay
        /\ ~UserAccess(users[u], now).has_access
        /\ v # u
        /\ UserAccess(users[v], now).has_access
\* the user has one of the flags is_admin, free_access, subscription_active
Flagged(user) ==
    user.is_admin \/ user.free_access \/ user.subscription_active

\* C28: in index.js access is monotone: no step (register, login, /me,
\* checkout, webhook, admin grant, analysis, the passing of time) removes a
\* user or clears a flag is_admin, free_access or subscription_active that
\* is set, so a user who hasAccess through a flag has it in every later
\* state; a step after which hasAccess is false for a user who had it is
\* the passing of trial_end for a user without any flag.
C28_FlagAccessMonotone ==
    [][\A e \in DOMAIN users :
        /\ e \in DOMAIN users'
        /\ users[e].is_admin => users'[e].is_admin
        /\ users[e].free_access => users'[e].free_access
        /\ users[e].subscription_active => users'[e].subscription_active
        /\ Flagged(users[e]) =>
               HasAccess(users[e], now) /\ HasAccess(users'[e], now')
        /\ (HasAccess(users[e], now) /\ ~HasAccess(users'[e], now')) =>
               /\ ~Flagged(users[e])
               /\ users' = users
               /\ users[e].trial_end > now
               /\ users[e].trial_end <= now']_vars

\* C28 witness: an invoice.payment_failed event for a user has just been
\* handled; the user's trial is over, subscription_active is the only flag
\* set and the user still has access
C28_Witness ==
    /\ resp.op = "webhook"
    /\ resp.event.type = "invoice.payment_failed"
    /\ resp.event.customer_email \in DOMAIN users
    /\ LET user == users[resp.event.customer_email]
       IN /\ user.trial_end <= now
          /\ user.subscription_active
          /\ ~user.free_access /\ ~user.is_admin
          /\ HasAccess(user, now)
====
